---- MODULE Spec2Model ----
(***************************************************************************)
(* Kubernetes manifest scanner (src/main.py): the rule engine check_config,*)
(* the orchestrator scan_file / scan_directory / run_scan, and the         *)
(* correction path clean_yaml_response / auto_fix_file /                   *)
(* get_corrected_yaml_content.                                             *)
(*                                                                         *)
(* Python dicts are functions over the keys that are present; dict.get is  *)
(* Get.  Python strings that the code searches or formats are sequences of *)
(* one-character strings (Chars); yaml.dump output is a sequence of lines. *)
(***************************************************************************)
EXTENDS Integers, Sequences, FiniteSets, TLC

VARIABLES
    obj,        \* check_config: the parsed document under evaluation
    file_path,  \* check_config: the source path it is reported under
    issues,     \* check_config: the returned list of findings
    pc,         \* position of the caller of check_config
    files,      \* the filesystem: path of each regular file -> its documents
    scan_path,  \* run_scan: the path argument of the latest call
    listing,    \* run_scan: the order os.walk listed each directory's files in
    scan_pc,    \* run_scan: "idle", "returned" or "raised"
    result,     \* run_scan: the returned list of findings
    earlier,    \* an earlier run_scan call: its path, its return value, calls since
    fix_pc,     \* correction: "idle", or the function that has run
    reply,      \* correction: what the correction service answered
    written,    \* correction: the files auto_fix_file has written
    warned,     \* correction: whether the validation warning was printed
    returned    \* correction: the value get_corrected_yaml_content returned

ruleVars == <<obj, file_path, issues, pc>>
scanVars == <<files, scan_path, listing, scan_pc, result, earlier>>
fixVars == <<fix_pc, reply, written, warned, returned>>
vars == <<ruleVars, scanVars, fixVars>>

---------------------------------------------------------------------------
(* Bounds of the model *)

MaxContainers == 2
MaxRules == 2
MaxDocs == 2
MaxLines == 3

---------------------------------------------------------------------------
(* Python strings *)

Chars(s) ==
  CASE s = "" -> <<>>
    [] s = "Unknown" -> <<"U", "n", "k", "n", "o", "w", "n">>
    [] s = "Pod" -> <<"P", "o", "d">>
    [] s = "Deployment" -> <<"D", "e", "p", "l", "o", "y", "m", "e", "n", "t">>
    [] s = "Service" -> <<"S", "e", "r", "v", "i", "c", "e">>
    [] s = "Role" -> <<"R", "o", "l", "e">>
    [] s = "ClusterRole" -> <<"C", "l", "u", "s", "t", "e", "r", "R", "o", "l", "e">>
    [] s = "web" -> <<"w", "e", "b">>
    [] s = "nginx" -> <<"n", "g", "i", "n", "x">>
    [] s = "unknown-container" -> <<"u", "n", "k", "n", "o", "w", "n", "-", "c", "o", "n", "t", "a", "i", "n", "e", "r">>
    [] s = "nginx:latest" -> <<"n", "g", "i", "n", "x", ":", "l", "a", "t", "e", "s", "t">>
    [] s = "nginx:" -> <<"n", "g", "i", "n", "x", ":">>
    [] s = "nginx:1.25" -> <<"n", "g", "i", "n", "x", ":", "1", ".", "2", "5">>
    [] s = "privileged.yaml" -> <<"p", "r", "i", "v", "i", "l", "e", "g", "e", "d", ".", "y", "a", "m", "l">>
    [] s = "k8s/a.yaml" -> <<"k", "8", "s", "/", "a", ".", "y", "a", "m", "l">>
    [] s = "k8s/b.yml" -> <<"k", "8", "s", "/", "b", ".", "y", "m", "l">>
    [] s = "k8s/sub/notes.txt" -> <<"k", "8", "s", "/", "s", "u", "b", "/", "n", "o", "t", "e", "s", ".", "t", "x", "t">>
    [] s = "k8s/notes.txt" -> <<"k", "8", "s", "/", "n", "o", "t", "e", "s", ".", "t", "x", "t">>
    [] s = "k8s/sub/c.yaml" -> <<"k", "8", "s", "/", "s", "u", "b", "/", "c", ".", "y", "a", "m", "l">>
    [] s = "k8s/missing.yaml" -> <<"k", "8", "s", "/", "m", "i", "s", "s", "i", "n", "g", ".", "y", "a", "m", "l">>
    [] s = "LoadBalancer" -> <<"L", "o", "a", "d", "B", "a", "l", "a", "n", "c", "e", "r">>
    [] s = "NodePort" -> <<"N", "o", "d", "e", "P", "o", "r", "t">>
    [] s = "ClusterIP" -> <<"C", "l", "u", "s", "t", "e", "r", "I", "P">>
    [] s = "get" -> <<"g", "e", "t">>
    [] s = "*" -> <<"*">>
    [] s = "pods" -> <<"p", "o", "d", "s">>
    [] s = "default" -> <<"d", "e", "f", "a", "u", "l", "t">>
    [] s = "100m" -> <<"1", "0", "0", "m">>
    [] s = "k8s" -> <<"k", "8", "s">>
    [] s = "k8s/sub" -> <<"k", "8", "s", "/", "s", "u", "b">>
    [] s = "a.yaml" -> <<"a", ".", "y", "a", "m", "l">>
    [] s = "b.yml" -> <<"b", ".", "y", "m", "l">>
    [] s = "notes.txt" -> <<"n", "o", "t", "e", "s", ".", "t", "x", "t">>
    [] s = "c.yaml" -> <<"c", ".", "y", "a", "m", "l">>
    [] s = "sub" -> <<"s", "u", "b">>

ErrorParsingText == <<"E", "r", "r", "o", "r", " ", "p", "a", "r", "s", "i", "n", "g", " ">>
MissingResourcesText == <<"m", "i", "s", "s", "i", "n", "g", " ", "r", "e", "s", "o", "u", "r", "c", "e", " ", "r", "e", "q", "u", "e", "s", "t", "s", "/", "l", "i", "m", "i", "t", "s">>
PrivilegedText == <<"r", "u", "n", "s", " ", "a", "s", " ", "p", "r", "i", "v", "i", "l", "e", "g", "e", "d">>
RootUserText == <<"r", "u", "n", "s", " ", "a", "s", " ", "r", "o", "o", "t", " ", "u", "s", "e", "r">>
LatestTagText == <<"u", "s", "e", "s", " ", "'", "l", "a", "t", "e", "s", "t", "'", " ", "i", "m", "a", "g", "e", " ", "t", "a", "g">>
NoNamespaceText == <<"h", "a", "s", " ", "n", "o", " ", "n", "a", "m", "e", "s", "p", "a", "c", "e", " ", "s", "p", "e", "c", "i", "f", "i", "e", "d">>
UsesText == <<"u", "s", "e", "s", " ">>
ExposeText == <<",", " ", "w", "h", "i", "c", "h", " ", "m", "a", "y", " ", "e", "x", "p", "o", "s", "e", " ", "w", "o", "r", "k", "l", "o", "a", "d", "s", " ", "e", "x", "t", "e", "r", "n", "a", "l", "l", "y">>
RbacText == <<"h", "a", "s", " ", "o", "v", "e", "r", "l", "y", " ", "p", "e", "r", "m", "i", "s", "s", "i", "v", "e", " ", "R", "B", "A", "C", " ", "r", "u", "l", "e", ":", " ", "v", "e", "r", "b", "s", "=">>
RbacResourcesText == <<",", " ", "r", "e", "s", "o", "u", "r", "c", "e", "s", "=">>
YamlErrorText == <<"m", "a", "p", "p", "i", "n", "g", " ", "v", "a", "l", "u", "e", "s", " ", "a", "r", "e", " ", "n", "o", "t", " ", "a", "l", "l", "o", "w", "e", "d", " ", "h", "e", "r", "e">>
AttributeErrorText == <<"'", "s", "t", "r", "'", " ", "o", "b", "j", "e", "c", "t", " ", "h", "a", "s", " ", "n", "o", " ", "a", "t", "t", "r", "i", "b", "u", "t", "e", " ", "'", "g", "e", "t", "'">>
NoSuchFileText == <<"[", "E", "r", "r", "n", "o", " ", "2", "]", " ", "N", "o", " ", "s", "u", "c", "h", " ", "f", "i", "l", "e", " ", "o", "r", " ", "d", "i", "r", "e", "c", "t", "o", "r", "y", ":", " ">>
DotYml == <<".", "y", "m", "l">>
DotYaml == <<".", "y", "a", "m", "l">>
ColonLatest == <<":", "l", "a", "t", "e", "s", "t">>
ContainerOpen == <<"C", "o", "n", "t", "a", "i", "n", "e", "r", " ", "'">>

\* str.startswith
StartsWith(s, t) == Len(t) <= Len(s) /\ SubSeq(s, 1, Len(t)) = t

\* str.endswith
EndsWith(s, t) == Len(t) <= Len(s) /\ SubSeq(s, Len(s) - Len(t) + 1, Len(s)) = t

\* the `in` operator on two strings
Contains(s, t) == \E i \in 0..(Len(s) - Len(t)) : SubSeq(s, i + 1, i + Len(t)) = t

\* concatenation of a sequence of sequences (list.extend over each, in order)
RECURSIVE Flatten(_)
Flatten(ss) == IF Len(ss) = 0 THEN <<>> ELSE Head(ss) \o Flatten(Tail(ss))

\* all sequences over S of length at most n
SeqsUpTo(S, n) == UNION {[1..k -> S] : k \in 0..n}

---------------------------------------------------------------------------
(* Python dicts and lists *)

EmptyMap == <<>>

\* dict.get(key, default)
Get(d, k, default) == IF k \in DOMAIN d THEN d[k] ELSE default

\* the `in` operator on a list
InList(x, l) == \E i \in DOMAIN l : l[i] = x

---------------------------------------------------------------------------
(* yaml.dump: block style, keys sorted, one record per output line.  ind   *)
(* is the column of the key, dash marks the first line of a list item.     *)

Line(ind, dash, key, val) == [ind |-> ind, dash |-> dash, key |-> key, val |-> val]

\* a string scalar: quoted when it starts with an indicator or ends in ':'
YamlStr(s) ==
    LET cs == Chars(s)
    IN  IF Len(cs) > 0 /\ (cs[1] = "*" \/ cs[Len(cs)] = ":")
        THEN "'" \o s \o "'"
        ELSE s

YamlBool(b) == IF b THEN "true" ELSE "false"

\* a mapping value whose own values are string scalars
DumpStrMap(m, keys, ind) ==
    Flatten([i \in 1..Len(keys) |->
        IF keys[i] \in DOMAIN m
        THEN <<Line(ind, FALSE, keys[i], YamlStr(m[keys[i]]))>>
        ELSE <<>>])

\* key: followed by the nested lines, or key: {} for an empty mapping
DumpNested(key, nested, ind) ==
    IF Len(nested) = 0
    THEN <<Line(ind, FALSE, key, "{}")>>
    ELSE <<Line(ind, FALSE, key, "")>> \o nested

\* a list of string scalars under a key
DumpStrList(key, l, ind) ==
    IF Len(l) = 0
    THEN <<Line(ind, FALSE, key, "[]")>>
    ELSE <<Line(ind, FALSE, key, "")>>
         \o [i \in 1..Len(l) |-> Line(ind + 2, TRUE, "", YamlStr(l[i]))]

DumpResources(r, ind) ==
    Flatten([i \in 1..2 |->
        LET k == <<"limits", "requests">>[i]
        IN  IF k \in DOMAIN r
            THEN DumpNested(k, DumpStrMap(r[k], <<"cpu">>, ind + 2), ind)
            ELSE <<>>])

DumpSecurity(s, ind) ==
    (IF "privileged" \in DOMAIN s
     THEN <<Line(ind, FALSE, "privileged", YamlBool(s["privileged"]))>> ELSE <<>>)
    \o
    (IF "runAsUser" \in DOMAIN s
     THEN <<Line(ind, FALSE, "runAsUser", ToString(s["runAsUser"]))>> ELSE <<>>)

\* the lines of a mapping, or a single {} line when it is empty
OrEmptyMap(lines, ind) == IF Len(lines) = 0 THEN <<Line(ind, FALSE, "", "{}")>> ELSE lines

DumpContainerBody(c, ind) ==
    (IF "image" \in DOMAIN c
     THEN <<Line(ind, FALSE, "image", YamlStr(c["image"]))>> ELSE <<>>)
    \o
    (IF "name" \in DOMAIN c
     THEN <<Line(ind, FALSE, "name", YamlStr(c["name"]))>> ELSE <<>>)
    \o
    (IF "resources" \in DOMAIN c
     THEN DumpNested("resources", DumpResources(c["resources"], ind + 2), ind) ELSE <<>>)
    \o
    (IF "securityContext" \in DOMAIN c
     THEN DumpNested("securityContext", DumpSecurity(c["securityContext"], ind + 2), ind)
     ELSE <<>>)

\* yaml.dump(c) for a container c
DumpContainer(c) == OrEmptyMap(DumpContainerBody(c, 0), 0)

DumpRuleBody(r, ind) ==
    (IF "resources" \in DOMAIN r THEN DumpStrList("resources", r["resources"], ind) ELSE <<>>)
    \o
    (IF "verbs" \in DOMAIN r THEN DumpStrList("verbs", r["verbs"], ind) ELSE <<>>)

\* yaml.dump(rule) for one entry of spec.rules
DumpRule(r) == OrEmptyMap(DumpRuleBody(r, 0), 0)

\* the first line of a list item carries the dash
AsItem(lines) == [i \in 1..Len(lines) |-> IF i = 1 THEN [lines[i] EXCEPT !.dash = TRUE] ELSE lines[i]]

\* a list of mappings under a key; items sit two columns right of the dash
DumpMapList(key, items, ind) ==
    IF Len(items) = 0
    THEN <<Line(ind, FALSE, key, "[]")>>
    ELSE <<Line(ind, FALSE, key, "")>> \o Flatten([i \in 1..Len(items) |-> AsItem(items[i])])

DumpContainers(cs, ind) ==
    DumpMapList("containers",
        [i \in 1..Len(cs) |-> OrEmptyMap(DumpContainerBody(cs[i], ind + 2), ind + 2)], ind)

DumpTemplate(t, ind) ==
    IF "spec" \in DOMAIN t
    THEN DumpNested("spec",
            IF "containers" \in DOMAIN t["spec"]
            THEN DumpContainers(t["spec"]["containers"], ind + 2) ELSE <<>>, ind)
    ELSE <<>>

DumpSpec(s, ind) ==
    (IF "containers" \in DOMAIN s THEN DumpContainers(s["containers"], ind) ELSE <<>>)
    \o
    (IF "rules" \in DOMAIN s
     THEN DumpMapList("rules",
            [i \in 1..Len(s["rules"]) |->
                OrEmptyMap(DumpRuleBody(s["rules"][i], ind + 2), ind + 2)], ind)
     ELSE <<>>)
    \o
    (IF "template" \in DOMAIN s
     THEN DumpNested("template", DumpTemplate(s["template"], ind + 2), ind) ELSE <<>>)
    \o
    (IF "type" \in DOMAIN s THEN <<Line(ind, FALSE, "type", YamlStr(s["type"]))>> ELSE <<>>)

\* yaml.dump(obj) for a whole document
DumpObject(o) ==
    OrEmptyMap(
        (IF "kind" \in DOMAIN o THEN <<Line(0, FALSE, "kind", YamlStr(o["kind"]))>> ELSE <<>>)
        \o
        (IF "metadata" \in DOMAIN o
         THEN DumpNested("metadata",
                DumpStrMap(o["metadata"], <<"name", "namespace">>, 2), 0)
         ELSE <<>>)
        \o
        (IF "spec" \in DOMAIN o THEN DumpNested("spec", DumpSpec(o["spec"], 2), 0) ELSE <<>>),
        0)

---------------------------------------------------------------------------
(* check_config: the rule engine *)

Issue(severity, message, snippet) ==
    [severity |-> severity, message |-> message, snippet |-> snippet]

\* f"{file_path} [{kind}/{metadata.get('name', '')}] "
ObjectPrefix(path, kind, metadata) ==
    Chars(path) \o <<" ", "[">> \o Chars(kind) \o <<"/">>
    \o Chars(Get(metadata, "name", "")) \o <<"]", " ">>

\* f"{file_path} [{kind}/{name}] Container '{name}' {text}"
ContainerMessage(path, kind, metadata, name, text) ==
    ObjectPrefix(path, kind, metadata) \o ContainerOpen \o Chars(name) \o <<"'", " ">> \o text

\* fault variant of SelectContainers: the template location is never consulted
SelectContainersPodOnly(spec) == Get(spec, "containers", <<>>)

\* the container list check_config walks: spec.containers when the key is
\* present, otherwise spec.template.spec.containers
SelectContainers(spec) ==
    IF "containers" \in DOMAIN spec
    THEN spec["containers"]
    ELSE IF "template" \in DOMAIN spec /\ "spec" \in DOMAIN spec["template"]
         THEN Get(spec["template"]["spec"], "containers", <<>>)
         ELSE <<>>

\* fault variant of MissingResources: `and` in place of `or`
MissingResourcesBothAbsent(resources) ==
    "limits" \notin DOMAIN resources /\ "requests" \notin DOMAIN resources

\* "limits" not in resources or "requests" not in resources
MissingResources(resources) ==
    "limits" \notin DOMAIN resources \/ "requests" \notin DOMAIN resources

\* security.get("privileged", False), taken as a condition
IsPrivileged(security) == Get(security, "privileged", FALSE)

\* security.get("runAsUser", 0) == 0
RunsAsRoot(security) == Get(security, "runAsUser", 0) = 0

\* fault variant of IsLatestImage: the bare trailing ':' is not looked for
IsLatestImageNoBareColon(image) == Contains(Chars(image), ColonLatest)

\* ":latest" in image or image.endswith(":")
IsLatestImage(image) ==
    Contains(Chars(image), ColonLatest) \/ EndsWith(Chars(image), <<":">>)

\* one pass of the loop body over a container c
ContainerIssues(c, path, kind, metadata) ==
    LET name == Get(c, "name", "unknown-container")
        resources == Get(c, "resources", EmptyMap)
        security == Get(c, "securityContext", EmptyMap)
        image == Get(c, "image", "")
        Msg(text) == ContainerMessage(path, kind, metadata, name, text)
    IN  (IF MissingResources(resources)
         THEN <<Issue("Medium", Msg(MissingResourcesText), DumpContainer(c))>> ELSE <<>>)
        \o
        (IF IsPrivileged(security)
         THEN <<Issue("High", Msg(PrivilegedText), DumpContainer(c))>> ELSE <<>>)
        \o
        (IF RunsAsRoot(security)
         THEN <<Issue("High", Msg(RootUserText), DumpContainer(c))>> ELSE <<>>)
        \o
        (IF IsLatestImage(image)
         THEN <<Issue("Low", Msg(LatestTagText), DumpContainer(c))>> ELSE <<>>)

\* kind == "Service" and "namespace" not in metadata
ServiceNamespaceIssues(o, path, kind, metadata) ==
    IF kind = "Service" /\ "namespace" \notin DOMAIN metadata
    THEN <<Issue("Low",
               Chars(path) \o <<" ", "[">> \o Chars("Service") \o <<"/">>
               \o Chars(Get(metadata, "name", "")) \o <<"]", " ">> \o NoNamespaceText,
               DumpObject(o))>>
    ELSE <<>>

\* kind == "Service" and spec.get("type", "ClusterIP") in ["LoadBalancer", "NodePort"]
ServiceExposureIssues(o, path, kind, metadata, spec) ==
    LET svc_type == Get(spec, "type", "ClusterIP")
    IN  IF kind = "Service" /\ svc_type \in {"LoadBalancer", "NodePort"}
        THEN <<Issue("High",
                   Chars(path) \o <<" ", "[">> \o Chars("Service") \o <<"/">>
                   \o Chars(Get(metadata, "name", "")) \o <<"]", " ">>
                   \o UsesText \o Chars(svc_type) \o ExposeText,
                   DumpObject(o))>>
        ELSE <<>>

\* the f-string rendering of a list of strings: ['get', '*']
ReprList(l) ==
    <<"[">>
    \o Flatten([i \in 1..Len(l) |->
            (IF i = 1 THEN <<>> ELSE <<",", " ">>) \o <<"'">> \o Chars(l[i]) \o <<"'">>])
    \o <<"]">>

\* "*" in verbs or "*" in resources
RuleIsPermissive(verbs, resources) == InList("*", verbs) \/ InList("*", resources)

\* fault variant of RuleSnippet: the whole object is dumped, as the Service rules do
RuleSnippetWholeObject(rule, o) == DumpObject(o)

\* the snippet of an RBAC finding
RuleSnippet(rule, o) == DumpRule(rule)

\* kind in ["Role", "ClusterRole"]: one finding per permissive entry of spec.rules
RbacIssues(o, path, kind, metadata, spec) ==
    IF kind \in {"Role", "ClusterRole"}
    THEN LET rules == Get(spec, "rules", <<>>)
         IN  Flatten([i \in 1..Len(rules) |->
                LET rule == rules[i]
                    verbs == Get(rule, "verbs", <<>>)
                    resources == Get(rule, "resources", <<>>)
                IN  IF RuleIsPermissive(verbs, resources)
                    THEN <<Issue("High",
                               ObjectPrefix(path, kind, metadata) \o RbacText
                               \o ReprList(verbs) \o RbacResourcesText \o ReprList(resources),
                               RuleSnippet(rule, o))>>
                    ELSE <<>>])
    ELSE <<>>

\* fault variant of check_config: the object-level rules run before the
\* container loop
check_configObjectLevelFirst(o, path) ==
    LET kind == Get(o, "kind", "Unknown")
        metadata == Get(o, "metadata", EmptyMap)
        spec == Get(o, "spec", EmptyMap)
        containers == SelectContainers(spec)
    IN  ServiceNamespaceIssues(o, path, kind, metadata)
        \o ServiceExposureIssues(o, path, kind, metadata, spec)
        \o RbacIssues(o, path, kind, metadata, spec)
        \o Flatten([i \in 1..Len(containers) |->
            ContainerIssues(containers[i], path, kind, metadata)])

check_config(o, path) ==
    LET kind == Get(o, "kind", "Unknown")
        metadata == Get(o, "metadata", EmptyMap)
        spec == Get(o, "spec", EmptyMap)
        containers == SelectContainers(spec)
    IN  Flatten([i \in 1..Len(containers) |->
            ContainerIssues(containers[i], path, kind, metadata)])
        \o ServiceNamespaceIssues(o, path, kind, metadata)
        \o ServiceExposureIssues(o, path, kind, metadata, spec)
        \o RbacIssues(o, path, kind, metadata, spec)

---------------------------------------------------------------------------
(* The documents the rule engine is exercised on *)

Quantity == [cpu |-> "100m"]

NameOpts == {EmptyMap, [name |-> "nginx"]}
ImageOpts == {EmptyMap} \cup {[image |-> i] : i \in {"nginx", "nginx:latest", "nginx:", "nginx:1.25"}}
ResourcesOpts ==
    {EmptyMap, [resources |-> EmptyMap], [resources |-> [limits |-> Quantity]],
     [resources |-> [requests |-> Quantity]],
     [resources |-> [limits |-> Quantity, requests |-> Quantity]]}
PrivilegedOpts == {EmptyMap, [privileged |-> TRUE], [privileged |-> FALSE]}
RunAsUserOpts == {EmptyMap, [runAsUser |-> 0], [runAsUser |-> 1000]}
SecurityOpts ==
    {EmptyMap} \cup {[securityContext |-> p @@ u] : p \in PrivilegedOpts, u \in RunAsUserOpts}

Containers ==
    {n @@ i @@ r @@ s : n \in NameOpts, i \in ImageOpts, r \in ResourcesOpts, s \in SecurityOpts}

\* the containers that lists of more than one entry are built from
CoreContainers ==
    {[name |-> "nginx", image |-> "nginx:1.25",
      resources |-> [limits |-> Quantity, requests |-> Quantity],
      securityContext |-> [runAsUser |-> 1000]],
     [name |-> "nginx", image |-> "nginx:latest", securityContext |-> [privileged |-> TRUE]],
     [image |-> "nginx:", resources |-> [limits |-> Quantity],
      securityContext |-> [privileged |-> FALSE, runAsUser |-> 0]]}

ContainerLists == {<<c>> : c \in Containers} \cup SeqsUpTo(CoreContainers, MaxContainers)

KindOpts == {EmptyMap, [kind |-> "Pod"], [kind |-> "Deployment"]}
MetadataOpts == {EmptyMap, [metadata |-> [name |-> "web"]]}

WorkloadSpecs ==
    {EmptyMap, [spec |-> EmptyMap], [spec |-> [template |-> EmptyMap]],
     [spec |-> [template |-> [spec |-> EmptyMap]]]}
    \cup {[spec |-> [containers |-> l]] : l \in ContainerLists}
    \cup {[spec |-> [template |-> [spec |-> [containers |-> l]]]] : l \in ContainerLists}
    \cup {[spec |-> [containers |-> l, template |-> [spec |-> [containers |-> t]]]] :
            l \in SeqsUpTo(CoreContainers, 1), t \in SeqsUpTo(CoreContainers, 1)}

Workloads == {k @@ m @@ s : k \in KindOpts, m \in MetadataOpts, s \in WorkloadSpecs}

Services ==
    {[kind |-> "Service"] @@ m @@ s :
        m \in {EmptyMap, [metadata |-> [name |-> "web"]],
               [metadata |-> [name |-> "web", namespace |-> "default"]]},
        s \in {EmptyMap, [spec |-> EmptyMap]}
              \cup {[spec |-> [type |-> t]] : t \in {"ClusterIP", "LoadBalancer", "NodePort"}}}

VerbsOpts == {EmptyMap, [verbs |-> <<"get">>], [verbs |-> <<"*">>], [verbs |-> <<"get", "*">>]}
RuleResourcesOpts == {EmptyMap, [resources |-> <<"pods">>], [resources |-> <<"*">>]}
Rules == {v @@ r : v \in VerbsOpts, r \in RuleResourcesOpts}

RbacObjects ==
    {[kind |-> k] @@ m @@ [spec |-> [rules |-> l]] :
        k \in {"Role", "ClusterRole", "Pod"}, m \in MetadataOpts, l \in SeqsUpTo(Rules, MaxRules)}

Objects == Workloads \cup Services \cup RbacObjects

RulePaths == {"k8s/a.yaml", "privileged.yaml"}

---------------------------------------------------------------------------
(* The filesystem and the YAML loader *)

\* A file is the sequence of its YAML documents.  yaml.safe_load_all is a
\* generator: a document is parsed when the loop asks for it, so a malformed
\* document raises only once the documents before it have been yielded.
MapDoc(o) == [tag |-> "map", val |-> o]         \* a mapping
NullDoc == [tag |-> "null", val |-> EmptyMap]    \* an empty document: None
ScalarDoc == [tag |-> "scalar", val |-> EmptyMap]   \* a plain string document
MalformedDoc == [tag |-> "malformed", val |-> EmptyMap]   \* not parseable

\* `if obj:` over a loaded document
Truthy(d) ==
    CASE d.tag = "null" -> FALSE
      [] d.tag = "scalar" -> TRUE
      [] d.tag = "map" -> DOMAIN d.val # {}
      [] OTHER -> FALSE

ServiceDoc == [kind |-> "Service", metadata |-> [name |-> "web"], spec |-> [type |-> "NodePort"]]
RoleDoc == [kind |-> "Role", metadata |-> [name |-> "web"],
            spec |-> [rules |-> <<[verbs |-> <<"*">>, resources |-> <<"pods">>]>>]]
PodDoc ==
    [kind |-> "Pod",
     spec |-> [containers |->
        <<[name |-> "nginx", image |-> "nginx:latest",
           securityContext |-> [privileged |-> TRUE]]>>]]

Docs == {MapDoc(PodDoc), NullDoc, ScalarDoc, MalformedDoc}
FileContents == SeqsUpTo(Docs, MaxDocs)

\* the directory tree: k8s/{a.yaml, b.yml, sub/{c.yaml, notes.txt}}
Dirs == {"k8s", "k8s/sub"}
DirFiles == [d \in Dirs |-> IF d = "k8s" THEN {"a.yaml", "b.yml"} ELSE {"c.yaml", "notes.txt"}]
SubDirs == [d \in Dirs |-> IF d = "k8s" THEN <<"sub">> ELSE <<>>]

\* os.path.join(root, name)
Join(root, name) == root \o "/" \o name

FilePaths == UNION {{Join(d, f) : f \in DirFiles[d]} : d \in Dirs}
MissingPath == "k8s/missing.yaml"

\* the orders a directory's entries can be listed in
Perms(S) == {p \in [1..Cardinality(S) -> S] : \A i, j \in DOMAIN p : p[i] = p[j] => i = j}
Listings == {l \in [Dirs -> UNION {Perms(DirFiles[d]) : d \in Dirs}] :
                \A d \in Dirs : l[d] \in Perms(DirFiles[d])}
NoListing == [d \in Dirs |-> <<>>]

---------------------------------------------------------------------------
(* scan_file, scan_directory, run_scan *)

\* fault variant of InitIssues: the list of the previous call is reused
InitIssuesStale == result

\* issues = []
InitIssues == <<>>

\* fault variant of Catches: only yaml.YAMLError is handled
CatchesYamlErrorOnly(exc) == exc = "YAMLError"

\* except Exception
Catches(exc) == exc \in {"YAMLError", "AttributeError", "FileNotFoundError"}

\* str(e) of the exception raised for this path
ErrorText(exc, path) ==
    CASE exc = "YAMLError" -> YamlErrorText
      [] exc = "AttributeError" -> AttributeErrorText
      [] exc = "FileNotFoundError" -> NoSuchFileText \o <<"'">> \o Chars(path) \o <<"'">>

\* the finding appended by the except branch
ErrorIssue(exc, path) ==
    Issue("Low", ErrorParsingText \o Chars(path) \o <<":", " ">> \o ErrorText(exc, path), <<>>)

\* for obj in docs: if obj: issues.extend(check_config(obj, file_path))
\* exc names the exception that ended the loop, "none" when it ran to the end
RECURSIVE LoadAndCheck(_, _, _)
LoadAndCheck(docs, path, acc) ==
    IF Len(docs) = 0 THEN [exc |-> "none", issues |-> acc]
    ELSE LET d == Head(docs)
         IN  IF d.tag = "malformed" THEN [exc |-> "YAMLError", issues |-> acc]
             ELSE IF ~Truthy(d) THEN LoadAndCheck(Tail(docs), path, acc)
             ELSE IF d.tag # "map" THEN [exc |-> "AttributeError", issues |-> acc]
             ELSE LoadAndCheck(Tail(docs), path, acc \o check_config(d.val, path))

\* the try/except around the loop: body is how the try block ended; raised
\* tells whether an exception leaves scan_file
HandleException(body, path) ==
    IF body.exc = "none" THEN [raised |-> FALSE, issues |-> body.issues]
    ELSE IF Catches(body.exc)
         THEN [raised |-> FALSE, issues |-> Append(body.issues, ErrorIssue(body.exc, path))]
         ELSE [raised |-> TRUE, issues |-> <<>>]

scan_file(path) ==
    HandleException(
        IF path \notin DOMAIN files
        THEN [exc |-> "FileNotFoundError", issues |-> InitIssues]
        ELSE LoadAndCheck(files[path], path, InitIssues),
        path)

\* file.endswith((".yml", ".yaml"))
IsYamlName(name) == EndsWith(Chars(name), DotYml) \/ EndsWith(Chars(name), DotYaml)

\* os.walk(path), top down: the files of a directory in listed order, then
\* each sub-directory in turn
RECURSIVE Walk(_, _)
Walk(dir, order) ==
    [i \in 1..Len(order[dir]) |-> [root |-> dir, file |-> order[dir][i]]]
    \o Flatten([i \in 1..Len(SubDirs[dir]) |-> Walk(Join(dir, SubDirs[dir][i]), order)])

\* for file in files: if file.endswith(...): all_issues.extend(scan_file(full_path))
\* an exception leaving scan_file would leave scan_directory too
RECURSIVE ScanEntries(_, _)
ExtendWith(one, rest, all_issues) ==
    IF one.raised THEN [raised |-> TRUE, issues |-> <<>>]
    ELSE ScanEntries(rest, all_issues \o one.issues)

ScanEntries(entries, all_issues) ==
    IF Len(entries) = 0 THEN [raised |-> FALSE, issues |-> all_issues]
    ELSE IF IsYamlName(Head(entries).file)
         THEN ExtendWith(scan_file(Join(Head(entries).root, Head(entries).file)),
                         Tail(entries), all_issues)
         ELSE ScanEntries(Tail(entries), all_issues)

scan_directory(path, order) == ScanEntries(Walk(path, order), <<>>)

\* os.path.isdir(path)
IsDir(path) == path \in Dirs

run_scan(path, order) == IF IsDir(path) THEN scan_directory(path, order) ELSE scan_file(path)

---------------------------------------------------------------------------
(* The scanner called again and again over an unchanging tree *)

\* no correction has been asked for
FixIdle ==
    /\ fix_pc = "idle"
    /\ reply = [failed |-> TRUE, text |-> <<>>]
    /\ written = {}
    /\ warned = FALSE
    /\ returned = <<>>

NoEarlier == [path |-> "", result |-> <<>>, since |-> 0]

ScanIdle ==
    /\ files = [p \in FilePaths |-> <<>>]
    /\ scan_path = ""
    /\ listing = NoListing
    /\ scan_pc = "idle"
    /\ result = <<>>
    /\ earlier = NoEarlier

RulesIdle ==
    /\ obj = EmptyMap
    /\ file_path = ""
    /\ issues = <<>>
    /\ pc = "idle"

Init ==
    /\ RulesIdle
    /\ \E a \in FileContents :
        files = [p \in FilePaths |->
                    CASE p = "k8s/a.yaml" -> a
                      [] p = "k8s/b.yml" -> <<MapDoc(ServiceDoc)>>
                      [] p = "k8s/sub/c.yaml" -> <<MapDoc(RoleDoc)>>
                      [] OTHER -> <<MapDoc(PodDoc)>>]
    /\ scan_path = ""
    /\ listing = NoListing
    /\ scan_pc = "idle"
    /\ result = <<>>
    /\ earlier = NoEarlier
    /\ FixIdle

\* one call of run_scan(path); order is how the filesystem lists the
\* directories during this call
RunScan(path, order) ==
    \E out \in {run_scan(path, order)} :
        /\ scan_path' = path
        /\ listing' = order
        /\ scan_pc' = IF out.raised THEN "raised" ELSE "returned"
        /\ result' = out.issues
        /\ earlier' \in
            {[path |-> path, result |-> out.issues, since |-> 0],
             IF earlier.path = "" THEN earlier
             ELSE [earlier EXCEPT !.since = IF @ < 2 THEN @ + 1 ELSE @]}
        /\ UNCHANGED <<files, ruleVars, fixVars>>

\* run_scan on a file path lists no directory
RunScanFile == \E path \in FilePaths \cup {MissingPath} : RunScan(path, NoListing)

RunScanDirectory == \E path \in Dirs, order \in Listings : RunScan(path, order)

Next == RunScanFile \/ RunScanDirectory

Spec == Init /\ [][Next]_vars

---------------------------------------------------------------------------
(* The correction path: clean_yaml_response, auto_fix_file,                *)
(* get_corrected_yaml_content.  A text is the sequence of its lines; the    *)
(* line "<fence>" is the Markdown code fence of three backquotes.           *)

YamlFences == {"<fence>yaml", "<fence>yml"}
BareFence == {"<fence>"}
Lines == {"<fence>yaml", "<fence>", "kind: Pod", "a: [b", ""}
Texts == SeqsUpTo(Lines, MaxLines)

\* what the correction service does: it answers with a text, or the call raises
Replies == {[failed |-> TRUE, text |-> <<>>]} \cup {[failed |-> FALSE, text |-> t] : t \in Texts}

RECURSIVE DropLeadingBlank(_)
DropLeadingBlank(t) ==
    IF Len(t) > 0 /\ Head(t) = "" THEN DropLeadingBlank(Tail(t)) ELSE t

RECURSIVE DropTrailingBlank(_)
DropTrailingBlank(t) ==
    IF Len(t) > 0 /\ t[Len(t)] = "" THEN DropTrailingBlank(SubSeq(t, 1, Len(t) - 1)) ELSE t

\* re.sub(r"^<fence>\s*\n", "", text, flags=re.MULTILINE): every fence line
\* that a newline follows goes, with the blank lines right after it
RECURSIVE DropFenceLines(_, _)
DropFenceLines(t, fences) ==
    IF Len(t) = 0 THEN <<>>
    ELSE IF Head(t) \in fences /\ Len(t) > 1
         THEN DropFenceLines(DropLeadingBlank(Tail(t)), fences)
         ELSE <<Head(t)>> \o DropFenceLines(Tail(t), fences)

\* re.sub(r"\n<fence>\s*$", "", text): a closing fence that ends the text, blank
\* lines after it aside, goes with them, unless it is the first line
DropClosingFence(t) ==
    IF Len(DropTrailingBlank(t)) > 1
       /\ DropTrailingBlank(t)[Len(DropTrailingBlank(t))] = "<fence>"
    THEN SubSeq(t, 1, Len(DropTrailingBlank(t)) - 1)
    ELSE t

\* str.strip() on the whole text
Strip(t) == DropLeadingBlank(DropTrailingBlank(t))

clean_yaml_response(response_text) ==
    Strip(DropClosingFence(DropFenceLines(
        DropClosingFence(DropFenceLines(response_text, YamlFences)), BareFence)))

\* whether the YAML parser accepts the text: a fence or an unclosed flow
\* sequence is no YAML
Parseable(t) == \A i \in DOMAIN t : t[i] \in {"kind: Pod", ""}

\* yaml.safe_load_all returns a generator: the text is parsed, and
\* yaml.YAMLError raised, only while the generator is iterated
LoadAllRaises(t, iterated) == iterated /\ ~Parseable(t)

\* os.path.splitext(file_path), then f"{base}_fixed{ext}", on the characters
\* of a path whose last component has an extension
LastDot(cs) == CHOOSE i \in DOMAIN cs : cs[i] = "." /\ \A j \in DOMAIN cs : j > i => cs[j] # "."
FixedPath(path) ==
    SubSeq(Chars(path), 1, LastDot(Chars(path)) - 1)
    \o <<"_", "f", "i", "x", "e", "d">>
    \o SubSeq(Chars(path), LastDot(Chars(path)), Len(Chars(path)))

PlaceholderText == <<"Unable to read corrected file">>

InitFix ==
    /\ RulesIdle
    /\ ScanIdle
    /\ FixIdle

\* auto_fix_file(file_path), the service answering r.  The generator that
\* yaml.safe_load_all(fixed_yaml) returns is dropped without being iterated.
AutoFixFile(path, r) ==
    /\ fix_pc = "idle"
    /\ fix_pc' = "auto_fix_file"
    /\ scan_path' = path
    /\ reply' = r
    /\ IF path \notin DOMAIN files \/ r.failed
       THEN /\ written' = written
            /\ warned' = FALSE
       ELSE /\ warned' = LoadAllRaises(clean_yaml_response(r.text), FALSE)
            /\ written' = written \cup
                    {[path |-> FixedPath(path), text |-> clean_yaml_response(r.text)]}
    /\ UNCHANGED <<ruleVars, files, listing, scan_pc, result, earlier, returned>>

\* get_corrected_yaml_content(file_content), the service answering r
GetCorrectedYamlContent(r) ==
    /\ fix_pc = "idle"
    /\ fix_pc' = "get_corrected_yaml_content"
    /\ reply' = r
    /\ returned' = IF r.failed THEN PlaceholderText ELSE clean_yaml_response(r.text)
    /\ UNCHANGED <<ruleVars, scanVars, written, warned>>

NextFix ==
    \/ \E path \in FilePaths \cup {MissingPath}, r \in Replies : AutoFixFile(path, r)
    \/ \E r \in Replies : GetCorrectedYamlContent(r)

SpecFix == InitFix /\ [][NextFix]_vars

---------------------------------------------------------------------------
(* The rule engine applied to one document *)

InitRules ==
    /\ obj \in Objects
    /\ file_path \in RulePaths
    /\ issues = <<>>
    /\ pc = "call"
    /\ ScanIdle
    /\ FixIdle

CheckConfig ==
    /\ pc = "call"
    /\ issues' = check_config(obj, file_path)
    /\ pc' = "returned"
    /\ UNCHANGED <<obj, file_path, scanVars, fixVars>>

NextRules == CheckConfig

SpecRules == InitRules /\ [][NextRules]_vars

---------------------------------------------------------------------------
(* Properties of the rule engine, checked under SpecRules *)

\* the containers of the evaluated object that check_config walks
Evaluated == SelectContainers(Get(obj, "spec", EmptyMap))

\* the containers of the object at either location, walked or not
AtContainers == Get(Get(obj, "spec", EmptyMap), "containers", <<>>)
AtTemplate ==
    Get(Get(Get(Get(obj, "spec", EmptyMap), "template", EmptyMap), "spec", EmptyMap),
        "containers", <<>>)
AtEitherLocation ==
    {AtContainers[i] : i \in DOMAIN AtContainers} \cup {AtTemplate[i] : i \in DOMAIN AtTemplate}

SecurityOf(c) == Get(c, "securityContext", EmptyMap)

\* some returned finding of this severity, for this container, satisfies P
FindingFor(c, severity, P(_)) ==
    \E i \in DOMAIN issues :
        /\ issues[i].severity = severity
        /\ issues[i].snippet = DumpContainer(c)
        /\ P(issues[i].message)

TextRootUser == <<"r", "o", "o", "t", " ", "u", "s", "e", "r">>
TextLatestImageTag == <<"l", "a", "t", "e", "s", "t", " ", "i", "m", "a", "g", "e", " ", "t", "a", "g">>
TextQuotedLatestImageTag == <<"'", "l", "a", "t", "e", "s", "t", "'", " ", "i", "m", "a", "g", "e", " ", "t", "a", "g">>
TextPrivileged == <<"p", "r", "i", "v", "i", "l", "e", "g", "e", "d">>
TextRunsAsPrivileged == <<"r", "u", "n", "s", " ", "a", "s", " ", "p", "r", "i", "v", "i", "l", "e", "g", "e", "d">>
TextMissingResources == <<"m", "i", "s", "s", "i", "n", "g", " ", "r", "e", "s", "o", "u", "r", "c", "e", " ", "r", "e", "q", "u", "e", "s", "t", "s", "/", "l", "i", "m", "i", "t", "s">>
TextRbac == <<"h", "a", "s", " ", "o", "v", "e", "r", "l", "y", " ", "p", "e", "r", "m", "i", "s", "s", "i", "v", "e", " ", "R", "B", "A", "C", " ", "r", "u", "l", "e">>

HasRootUserText(m) == Contains(m, TextRootUser)
HasLatestImageTagText(m) == Contains(m, TextLatestImageTag)
HasQuotedLatestImageTagText(m) == Contains(m, TextQuotedLatestImageTag)
HasPrivilegedText(m) == Contains(m, TextPrivileged)
EndsRunsAsPrivileged(m) == EndsWith(m, TextRunsAsPrivileged)

\* C1: every evaluated container whose securityContext.runAsUser is present
\* and equals 0 gets a High finding whose message contains "root user", and a
\* container that omits runAsUser (or has no securityContext) gets none.
C1_RootUserOnlyForExplicitZero ==
    pc = "returned" =>
        \A i \in DOMAIN Evaluated :
            LET c == Evaluated[i]
                sec == SecurityOf(c)
            IN  /\ ("runAsUser" \in DOMAIN sec /\ sec["runAsUser"] = 0)
                        => FindingFor(c, "High", HasRootUserText)
                /\ "runAsUser" \notin DOMAIN sec
                        => ~FindingFor(c, "High", HasRootUserText)

ExamplePod ==
    [kind |-> "Pod",
     spec |-> [containers |->
        <<[name |-> "nginx", image |-> "nginx:latest",
           securityContext |-> [privileged |-> TRUE]]>>]]

\* C2: the example Pod (one container nginx, image nginx:latest, privileged,
\* no resources, no runAsUser) yields exactly three findings: missing
\* resources (Medium), privileged (High), latest tag (Low), in that order.
C2_ExampleYieldsThreeFindings ==
    (pc = "returned" /\ obj = ExamplePod) =>
        /\ Len(issues) = 3
        /\ issues[1].severity = "Medium" /\ EndsWith(issues[1].message, TextMissingResources)
        /\ issues[2].severity = "High" /\ EndsWith(issues[2].message, TextRunsAsPrivileged)
        /\ issues[3].severity = "Low" /\ EndsWith(issues[3].message, TextQuotedLatestImageTag)

HasWildcard(rule) ==
    InList("*", Get(rule, "verbs", <<>>)) \/ InList("*", Get(rule, "resources", <<>>))
IsRbacFinding(f) == Contains(f.message, TextRbac)
RulesOf(o) == Get(Get(o, "spec", EmptyMap), "rules", <<>>)

\* C6: for a Role or ClusterRole the RBAC findings are, in order, one High
\* finding per entry of spec.rules with "*" in verbs or resources, its snippet
\* the dump of that entry and not of the whole object; entries without a
\* wildcard and objects of any other kind produce no RBAC finding.
C6_RbacFindingPerWildcardRule ==
    pc = "returned" =>
        LET found == SelectSeq(issues, IsRbacFinding)
            wild == SelectSeq(RulesOf(obj), HasWildcard)
        IN  IF Get(obj, "kind", "Unknown") \in {"Role", "ClusterRole"}
            THEN /\ Len(found) = Len(wild)
                 /\ \A k \in DOMAIN found :
                        /\ found[k].severity = "High"
                        /\ found[k].snippet = DumpRule(wild[k])
                        /\ found[k].snippet # DumpObject(obj)
            ELSE Len(found) = 0

C6_Witness ==
    /\ pc = "returned"
    /\ Get(obj, "kind", "Unknown") = "ClusterRole"
    /\ Len(RulesOf(obj)) = 2
    /\ HasWildcard(RulesOf(obj)[1]) /\ ~HasWildcard(RulesOf(obj)[2])
    /\ Len(SelectSeq(issues, IsRbacFinding)) = 1

ImageEndsLatestOrColon(c) ==
    LET image == Chars(Get(c, "image", ""))
    IN  EndsWith(image, <<":", "l", "a", "t", "e", "s", "t">>) \/ EndsWith(image, <<":">>)

\* C7 as stated: every evaluated container whose image ends in ":latest" or
\* in a bare ":" gets a Low finding whose message contains "latest image tag".
C7_LatestFindingAsStated ==
    pc = "returned" =>
        \A i \in DOMAIN Evaluated :
            ImageEndsLatestOrColon(Evaluated[i])
                => FindingFor(Evaluated[i], "Low", HasLatestImageTagText)

\* C7 as amended: every evaluated container whose image ends in ":latest" or
\* in a bare ":" gets a Low finding whose message contains "'latest' image
\* tag", the word latest in single quotes.
C7_LatestFindingQuoted ==
    pc = "returned" =>
        \A i \in DOMAIN Evaluated :
            ImageEndsLatestOrColon(Evaluated[i])
                => FindingFor(Evaluated[i], "Low", HasQuotedLatestImageTagText)

C7_Witness ==
    /\ pc = "returned"
    /\ \E i \in DOMAIN Evaluated :
        /\ Get(Evaluated[i], "image", "") = "nginx:"
        /\ FindingFor(Evaluated[i], "Low", HasQuotedLatestImageTagText)
    /\ \E i \in DOMAIN Evaluated :
        /\ Get(Evaluated[i], "image", "") = "nginx:latest"
        /\ FindingFor(Evaluated[i], "Low", HasQuotedLatestImageTagText)

\* "{path} [{kind}/{name}] Container '{container}' missing resource requests/limits",
\* absent kind, name and container name standing as Unknown, "" and unknown-container
C8_Message(c) ==
    Chars(file_path) \o <<" ", "[">> \o Chars(Get(obj, "kind", "Unknown")) \o <<"/">>
    \o Chars(Get(Get(obj, "metadata", EmptyMap), "name", "")) \o <<"]", " ">>
    \o <<"C", "o", "n", "t", "a", "i", "n", "e", "r", " ", "'">>
    \o Chars(Get(c, "name", "unknown-container")) \o <<"'", " ">> \o TextMissingResources

\* C8: an evaluated container gets the Medium finding with the message
\* "{path} [{kind}/{name}] Container '{container}' missing resource
\* requests/limits" and its own dump as snippet if and only if its resources
\* mapping lacks limits or lacks requests.
C8_MissingResourcesIff ==
    pc = "returned" =>
        \A i \in DOMAIN Evaluated :
            LET c == Evaluated[i]
                resources == Get(c, "resources", EmptyMap)
            IN  (\E k \in DOMAIN issues :
                    issues[k] = [severity |-> "Medium", message |-> C8_Message(c),
                                 snippet |-> DumpContainer(c)])
                <=> ("limits" \notin DOMAIN resources \/ "requests" \notin DOMAIN resources)

C8_Witness ==
    /\ pc = "returned"
    /\ Len(Evaluated) = 2
    /\ DOMAIN Get(Evaluated[1], "resources", EmptyMap) = {"limits", "requests"}
    /\ DOMAIN Get(Evaluated[2], "resources", EmptyMap) = {"limits"}
    /\ \E k \in DOMAIN issues :
            issues[k] = [severity |-> "Medium", message |-> C8_Message(Evaluated[2]),
                         snippet |-> DumpContainer(Evaluated[2])]

IsSetPrivileged(c) ==
    "privileged" \in DOMAIN SecurityOf(c) /\ SecurityOf(c)["privileged"] = TRUE

\* C9 as stated: every container at spec.containers or at
\* spec.template.spec.containers with privileged true gets a High finding
\* whose message contains "privileged", and one whose privileged is absent or
\* false gets no such finding (no finding of the privileged rule, whose
\* message ends in "runs as privileged").
C9_PrivilegedAsStated ==
    pc = "returned" =>
        \A c \in AtEitherLocation :
            /\ IsSetPrivileged(c) => FindingFor(c, "High", HasPrivilegedText)
            /\ ~IsSetPrivileged(c) => ~FindingFor(c, "High", EndsRunsAsPrivileged)

\* the list the spec calls the first match: spec.containers when the key is
\* there, otherwise spec.template.spec.containers
FirstMatch ==
    IF "containers" \in DOMAIN Get(obj, "spec", EmptyMap) THEN AtContainers ELSE AtTemplate

\* C9 as amended: every container of the first matching list (spec.containers
\* when spec has that key, otherwise spec.template.spec.containers) with
\* privileged true gets a High finding whose message contains "privileged",
\* and one of that list whose privileged is absent or false gets no finding of
\* the privileged rule (message ending in "runs as privileged").
C9_PrivilegedInFirstMatch ==
    pc = "returned" =>
        \A i \in DOMAIN FirstMatch :
            LET c == FirstMatch[i]
            IN  /\ IsSetPrivileged(c) => FindingFor(c, "High", HasPrivilegedText)
                /\ ~IsSetPrivileged(c) => ~FindingFor(c, "High", EndsRunsAsPrivileged)

C9_Witness ==
    /\ pc = "returned"
    /\ "containers" \notin DOMAIN Get(obj, "spec", EmptyMap)
    /\ Len(AtTemplate) = 2
    /\ IsSetPrivileged(AtTemplate[1]) /\ ~IsSetPrivileged(AtTemplate[2])
    /\ FindingFor(AtTemplate[1], "High", EndsRunsAsPrivileged)

---------------------------------------------------------------------------
(* Properties of the orchestrator, checked under Spec *)

\* a file whose loading or evaluation fails: it cannot be opened, or one of
\* its documents is malformed or is not a mapping
FileFails(path) ==
    \/ path \notin DOMAIN files
    \/ \E i \in DOMAIN files[path] : files[path][i].tag \in {"malformed", "scalar"}

\* "Error parsing {path}: "
ErrorPrefix(path) ==
    <<"E", "r", "r", "o", "r", " ", "p", "a", "r", "s", "i", "n", "g", " ">> \o Chars(path) \o <<":", " ">>

\* the positions of the findings of a list that report path as unparseable
ErrorFindings(list, path) ==
    {i \in DOMAIN list : StartsWith(list[i].message, ErrorPrefix(path))}

\* exactly one error finding for path, Low and with an empty snippet, when the
\* file fails, and none when it does not
OneErrorFindingIfBroken(list, path) ==
    IF FileFails(path)
    THEN /\ Cardinality(ErrorFindings(list, path)) = 1
         /\ \A i \in ErrorFindings(list, path) :
                list[i].severity = "Low" /\ list[i].snippet = <<>>
    ELSE ErrorFindings(list, path) = {}

\* sub occurs in list as a run of consecutive entries
IsSegment(sub, list) ==
    \E k \in 0..(Len(list) - Len(sub)) : SubSeq(list, k + 1, k + Len(sub)) = sub

\* the files under dir whose names end in .yaml or .yml
MatchingUnder(dir) ==
    {q \in FilePaths : StartsWith(Chars(q), Chars(dir) \o <<"/">>)
                       /\ (EndsWith(Chars(q), <<".", "y", "a", "m", "l">>)
                           \/ EndsWith(Chars(q), <<".", "y", "m", "l">>))}

\* C3: run_scan never raises; a failing file contributes exactly one finding
\* that is Low, starts "Error parsing {path}: " and has an empty snippet (it
\* closes the list of a single-file scan); in a directory scan every matching
\* file, those visited after a broken one included, is scanned and its
\* findings are in the result.
C3_MalformedInputIsReported ==
    /\ scan_pc # "raised"
    /\ (scan_pc = "returned" /\ ~IsDir(scan_path)) =>
            /\ OneErrorFindingIfBroken(result, scan_path)
            /\ FileFails(scan_path) => Len(result) \in ErrorFindings(result, scan_path)
    /\ (scan_pc = "returned" /\ IsDir(scan_path)) =>
            \A q \in MatchingUnder(scan_path) :
                /\ OneErrorFindingIfBroken(result, q)
                /\ IsSegment(scan_file(q).issues, result)

C3_Witness ==
    /\ scan_pc = "returned"
    /\ scan_path = "k8s"
    /\ listing["k8s"] = <<"a.yaml", "b.yml">>
    /\ files["k8s/a.yaml"] = <<MapDoc(PodDoc), MalformedDoc>>
    /\ \E i \in ErrorFindings(result, "k8s/a.yaml") :
            /\ i > 1
            /\ result[i - 1].severity = "Low"
            /\ result[i + 1] = scan_file("k8s/b.yml").issues[1]
    /\ IsSegment(scan_file("k8s/sub/c.yaml").issues, result)

\* the matching files of a directory scan in the order this call walked them
WalkedMatching ==
    SelectSeq([i \in 1..Len(Walk(scan_path, listing)) |->
                    Join(Walk(scan_path, listing)[i].root, Walk(scan_path, listing)[i].file)],
              LAMBDA q : q \in MatchingUnder(scan_path))

\* the concatenation half of C4: a directory scan returns the findings of its
\* matching files, each list whole and in order, in the order they were walked
DirectoryScanConcatenates ==
    (scan_pc = "returned" /\ IsDir(scan_path)) =>
        result = Flatten([i \in 1..Len(WalkedMatching) |-> scan_file(WalkedMatching[i]).issues])

\* C4: a directory scan returns the concatenation of the file scans of the
\* matching files in a traversal order fixed by the tree alone: scanning the
\* same unchanged directory again returns the same list, however the
\* filesystem lists the entries.
C4_DirectoryOrderIsDeterministic ==
    /\ DirectoryScanConcatenates
    /\ (scan_pc = "returned" /\ IsDir(scan_path) /\ earlier.path = scan_path)
            => result = earlier.result

\* C5: scanning the same unchanged file again, with any other calls in
\* between, returns the identical ordered list of findings.
C5_FileScanIsIdempotent ==
    (scan_pc = "returned" /\ ~IsDir(scan_path) /\ earlier.path = scan_path)
        => result = earlier.result

C5_Witness ==
    /\ scan_pc = "returned"
    /\ scan_path = "k8s/a.yaml"
    /\ earlier.path = scan_path
    /\ earlier.since = 2
    /\ Len(result) > 1
    /\ FileFails(scan_path)

---------------------------------------------------------------------------
(* Properties of the correction path, checked under SpecFix *)

\* C10: whenever the correction service returns text, the fence-stripped text
\* is surfaced (written to the *_fixed file by auto_fix_file, returned by
\* get_corrected_yaml_content) and the validation warning is raised exactly
\* when that text is not parseable YAML.
C10_UnparseableTextIsFlagged ==
    /\ (fix_pc = "auto_fix_file" /\ ~reply.failed /\ scan_path \in DOMAIN files) =>
            /\ [path |-> FixedPath(scan_path), text |-> clean_yaml_response(reply.text)]
                    \in written
            /\ warned <=> ~Parseable(clean_yaml_response(reply.text))
    /\ (fix_pc = "get_corrected_yaml_content" /\ ~reply.failed) =>
            /\ returned = clean_yaml_response(reply.text)
            /\ warned <=> ~Parseable(clean_yaml_response(reply.text))

\* the surfacing half of C10 alone: the fence-stripped text reaches the
\* caller whether or not it parses
CorrectedTextIsSurfaced ==
    /\ (fix_pc = "auto_fix_file" /\ ~reply.failed /\ scan_path \in DOMAIN files) =>
            [path |-> FixedPath(scan_path), text |-> clean_yaml_response(reply.text)]
                \in written
    /\ (fix_pc = "get_corrected_yaml_content" /\ ~reply.failed) =>
            returned = clean_yaml_response(reply.text)

---------------------------------------------------------------------------
(* One file of several documents scanned once: the order of the findings   *)

\* the rules that lists of more than one entry are built from
CoreRules ==
    {[verbs |-> <<"*">>], [verbs |-> <<"get">>, resources |-> <<"*">>],
     [verbs |-> <<"get">>, resources |-> <<"pods">>]}

\* objects that carry containers and fall under an object-level rule as well
MixedObjects ==
    {[kind |-> "Service"] @@ m @@ [spec |-> [containers |-> l, type |-> t]] :
        m \in MetadataOpts, l \in SeqsUpTo(CoreContainers, MaxContainers),
        t \in {"ClusterIP", "NodePort"}}
    \cup
    {[kind |-> "ClusterRole", metadata |-> [name |-> "web"],
      spec |-> [containers |-> l, rules |-> r]] :
        l \in SeqsUpTo(CoreContainers, MaxContainers), r \in SeqsUpTo(CoreRules, MaxRules)}

MixedDoc ==
    [kind |-> "ClusterRole", metadata |-> [name |-> "web"],
     spec |-> [containers |->
                <<[name |-> "nginx", image |-> "nginx:latest",
                   securityContext |-> [privileged |-> TRUE]],
                  [image |-> "nginx:", resources |-> [limits |-> Quantity],
                   securityContext |-> [privileged |-> FALSE, runAsUser |-> 0]]>>,
               rules |-> <<[verbs |-> <<"get">>, resources |-> <<"pods">>],
                           [verbs |-> <<"*">>]>>]]

\* the documents that files of more than one document are built from
OrderDocs == {MapDoc(PodDoc), MapDoc(ServiceDoc), MapDoc(RoleDoc), MapDoc(MixedDoc), NullDoc}

DocFiles ==
    {<<MapDoc(o)>> : o \in Objects \cup MixedObjects} \cup SeqsUpTo(OrderDocs, MaxDocs)

DocsPath == "k8s/a.yaml"

InitDocs ==
    /\ RulesIdle
    /\ FixIdle
    /\ files \in {[p \in FilePaths |-> IF p = DocsPath THEN a ELSE <<>>] : a \in DocFiles}
    /\ scan_path = ""
    /\ listing = NoListing
    /\ scan_pc = "idle"
    /\ result = <<>>
    /\ earlier = NoEarlier

\* the one call run_scan("k8s/a.yaml") of a process
ScanDocs ==
    /\ scan_pc = "idle"
    /\ RunScan(DocsPath, NoListing)

NextDocs == ScanDocs

SpecDocs == InitDocs /\ [][NextDocs]_vars

---------------------------------------------------------------------------
(* Order of the findings, under SpecDocs *)

\* the rule a finding comes from, read off its message: 1 missing resources,
\* 2 privileged, 3 root user, 4 latest tag, 5 Service without namespace,
\* 6 Service exposure, 7 RBAC; 0 for anything else
RuleOf(issue) ==
    CASE EndsWith(issue.message, TextMissingResources) -> 1
      [] EndsWith(issue.message, TextRunsAsPrivileged) -> 2
      [] EndsWith(issue.message, TextRootUser) -> 3
      [] EndsWith(issue.message, TextQuotedLatestImageTag) -> 4
      [] EndsWith(issue.message, NoNamespaceText) -> 5
      [] EndsWith(issue.message, ExposeText) -> 6
      [] Contains(issue.message, TextRbac) -> 7
      [] OTHER -> 0

Due(rule, applies, snippet) == [rule |-> rule, applies |-> applies, snippet |-> snippet]
IsDue(e) == e.applies

\* what one container owes, in rule order
DueOfContainer(c) ==
    SelectSeq(<<Due(1, MissingResources(Get(c, "resources", EmptyMap)), DumpContainer(c)),
                Due(2, IsPrivileged(SecurityOf(c)), DumpContainer(c)),
                Due(3, RunsAsRoot(SecurityOf(c)), DumpContainer(c)),
                Due(4, IsLatestImage(Get(c, "image", "")), DumpContainer(c))>>, IsDue)

\* what the object-level rules owe: namespace, exposure, then spec.rules in order
DueOfObject(o) ==
    LET kind == Get(o, "kind", "Unknown")
        spec == Get(o, "spec", EmptyMap)
        rules == IF kind \in {"Role", "ClusterRole"} THEN Get(spec, "rules", <<>>) ELSE <<>>
    IN  SelectSeq(
            <<Due(5, kind = "Service" /\ "namespace" \notin DOMAIN Get(o, "metadata", EmptyMap),
                  DumpObject(o)),
              Due(6, kind = "Service"
                     /\ Get(spec, "type", "ClusterIP") \in {"LoadBalancer", "NodePort"},
                  DumpObject(o))>>
            \o [j \in 1..Len(rules) |-> Due(7, HasWildcard(rules[j]), DumpRule(rules[j]))],
            IsDue)

\* container by container, then the object level; every entry names the
\* document it belongs to by the prefix of its message
DueOfDocument(o) ==
    LET cs == SelectContainers(Get(o, "spec", EmptyMap))
        prefix == ObjectPrefix(DocsPath, Get(o, "kind", "Unknown"), Get(o, "metadata", EmptyMap))
        all == Flatten([i \in 1..Len(cs) |-> DueOfContainer(cs[i])]) \o DueOfObject(o)
    IN  [i \in 1..Len(all) |-> [rule |-> all[i].rule, snippet |-> all[i].snippet,
                                 prefix |-> prefix]]

DueOfFile(docs) ==
    Flatten([d \in 1..Len(docs) |->
        IF Truthy(docs[d]) THEN DueOfDocument(docs[d].val) ELSE <<>>])

RulesOfResult == [i \in 1..Len(result) |-> RuleOf(result[i])]

\* C11: the findings of a scanned file are ordered document by document;
\* within a document container by container in list order, each container's
\* findings in rule order (missing resources, privileged, root user, latest
\* tag); and the object-level findings (Service without namespace, Service
\* exposure, RBAC findings in spec.rules order) after every container finding.
C11_FindingsAreOrdered ==
    (scan_pc = "returned" /\ scan_path = DocsPath) =>
        LET due == DueOfFile(files[DocsPath])
        IN  /\ Len(result) = Len(due)
            /\ \A i \in 1..Len(due) :
                /\ RuleOf(result[i]) = due[i].rule
                /\ result[i].snippet = due[i].snippet
                /\ StartsWith(result[i].message, due[i].prefix)

\* two documents: a ClusterRole with two containers and a wildcard rule, then
\* a Service; every container rule and every object-level rule has fired
C11_Witness ==
    /\ scan_pc = "returned"
    /\ files[DocsPath] = <<MapDoc(MixedDoc), MapDoc(ServiceDoc)>>
    /\ RulesOfResult = <<1, 2, 3, 4, 1, 3, 4, 7, 5, 6>>

====
